---- MODULE Spec2Model ----
(***************************************************************************)
(* A model of the MirrorX endpoint transport and pairing handshake:        *)
(*   mirrorx_core/src/socket/endpoint/endpoint.rs                          *)
(*       EndPoint (call, send, set_call_reply, register_call, remove_call),*)
(*       serve_stream, serve_sink, handle_signaling_to_local_message,      *)
(*       NonceValue                                                        *)
(*   mirrorx_core/src/socket/client_to_client_handler.rs                   *)
(*       connect, key_exchange_and_verify_password                         *)
(*                                                                         *)
(* The specifications share the variables:                                 *)
(*   Spec           the endpoint: callers, the outbound queue, the writer  *)
(*                  loop, the reader loop and its dispatch units           *)
(*   SpecOutbound   the outbound path alone, with a longer history         *)
(*   SpecScheduled  the endpoint under the fairness the runtime gives      *)
(*   SpecHandshake  handshake invocations over the endpoint's call         *)
(*   SpecInbound    the reader loop alone, with a record of its inputs     *)
(*   SpecNonce      one NonceValue sequencer advanced repeatedly           *)
(*   SpecPairing    the pairing handshake (connect step, verify step)      *)
(***************************************************************************)
EXTENDS Integers, Sequences, FiniteSets, TLC

VARIABLES
    \* ---- EndPoint (endpoint.rs:31-38) ----
    atomic_call_id,      \* AtomicU16 call-id counter
    call_reply_tx_map,   \* DashMap<u16, Sender>: call id -> owner of the reply channel
    packet_queue,        \* the mpsc channel packet_tx/packet_rx (buffers not yet received)
    endpoint_alive,      \* FALSE once the EndPoint (and with it packet_tx) is dropped
    \* ---- one invocation of call / send_media_frame per caller ----
    pc,                  \* position of each caller inside call / send_media_frame
    call_id,             \* the local call_id of the caller's call
    slot,                \* the caller's reply channel (capacity 1): its content
    result,              \* what the invocation returned
    \* ---- serve_sink ----
    writer_state,        \* "recv" | "send", or after the loop: "closed" | "failed"
    writer_buf,          \* the buffer the writer has received and not yet written
    sealing_n,           \* NonceValue.n of the sealing key
    wire,                \* frames written to the sink, in order
    \* ---- serve_stream ----
    reader_state,        \* "running", or after the loop: "closed" | "failed"
    opening_n,           \* NonceValue.n of the opening key
    inbound_count,       \* frames read from the stream so far
    units,               \* spawned dispatch units that have not run yet
    \* ---- history ----
    accepted,            \* every buffer accepted into packet_queue, in order
    late_replies,        \* replies dropped for an id whose call had timed out
    \* ---- SpecNonce ----
    nonce_v,             \* the value the sequencer under test was constructed with
    nonce_n,             \* NonceValue.n of the sequencer under test
    emitted,             \* results of its advance calls, in order
    \* ---- SpecPairing ----
    local_password,      \* ConfigProvider: the device password, or Unset
    priv_key_cache,      \* endpoint.cache(): the entry PasswordVerifyPrivateKey
    connect_reply,       \* the public key the last connect step returned
    initiator,           \* the initiator's password, ephemeral secret and salt
    request,             \* the KeyExchangeAndVerifyPasswordRequest on its way
    verify_out,          \* what the last verify step returned, and what it did
    verify_log,          \* what the verify steps since the last connect step returned
    \* ---- SpecHandshake, SpecInbound ----
    handshake,           \* per caller: whether it runs handshake, and what that returned
    inbound_log          \* what stream.next() has yielded so far, in order

endpointVars == <<atomic_call_id, call_reply_tx_map, packet_queue, endpoint_alive,
                  pc, call_id, slot, result, writer_state, writer_buf, sealing_n,
                  wire, reader_state, opening_n, inbound_count, units, accepted,
                  late_replies>>
nonceVars == <<nonce_v, nonce_n, emitted>>
pairingVars == <<local_password, priv_key_cache, connect_reply, initiator, request,
                 verify_out, verify_log>>
extraVars == <<handshake, inbound_log>>
sideVars == <<nonceVars, pairingVars, extraVars>>
vars == <<endpointVars, nonceVars, pairingVars, extraVars>>

(***************************************************************************)
(* Bounds.  The integer widths of the program (u16 call ids, the 48-bit    *)
(* nonce mask, the u64 offset, the u128 counter, the 128-entry queue) are  *)
(* scaled down so that wrap-around and a full queue are reachable.         *)
(***************************************************************************)
NumCallers == 2
CallIdModulus == 2
QueueCapacity == 2
MaxAccepted == 2
MaxAcceptedOutbound == 3
MaxInbound == 1
MaxLate == 1
NonceBits == 3
OffsetBits == 4
CounterBits == 6

Callers == 1..NumCallers
CallIds == 0..(CallIdModulus - 1)

Pow2(k) == 2 ^ k

\* Option::None of a call id, of a map entry, and of a message
NoId == -1
NoCaller == 0
NoMsg == "none"

(***************************************************************************)
(* NonceValue                                                              *)
(***************************************************************************)
NonceLen == 12

\* the number of values of a byte, scaled like the widths above (a byte of two bits) so
\* that the masked counter spreads over more than one byte
ByteBase == 4

\* (mutant) most significant byte first
ToBeBytes(m, k) == [i \in 1..k |-> (m \div (ByteBase ^ (k - i))) % ByteBase]

\* u128::to_le_bytes, its first k bytes: least significant byte first
RECURSIVE ToLeBytes(_, _)
ToLeBytes(m, k) ==
    IF k = 0 THEN <<>> ELSE <<m % ByteBase>> \o ToLeBytes(m \div ByteBase, k - 1)

\* Nonce::try_assume_unique_for_key: a slice of exactly NonceLen bytes, or an error
TryAssumeUniqueForKey(bytes) ==
    IF Len(bytes) = NonceLen THEN [ok |-> TRUE, nonce |-> bytes]
    ELSE [ok |-> FALSE, nonce |-> <<>>]

NonceMask == Pow2(NonceBits) - 1

\* NonceValue::new
NonceValueNew(offset) == offset

\* (mutant) the mask is one bit short
MaskedCounterShort(n) == n % Pow2(NonceBits - 1)

\* the value advance masks; n & 0xFFFF_FFFF_FFFF
MaskedCounter(n) == n % (NonceMask + 1)

\* NonceSequence::advance: the new n and the returned Result<Nonce, Unspecified>
NonceAdvance(n) ==
    LET n1 == (n + 1) % Pow2(CounterBits)
        m == MaskedCounter(n1)
    IN [n |-> n1, out |-> TryAssumeUniqueForKey(ToLeBytes(m, NonceLen))]

(***************************************************************************)
(* Packets and their serialized form                                       *)
(***************************************************************************)
RequestMessage == "StartMediaTransmissionRequest"
MediaMessage == "MediaFrame"
ReplyMessages == {"StartMediaTransmissionReply"}

\* the messages of handshake: its request, the two replies it knows by their status,
\* and what else a reply may be
HandshakeRequest == "HandshakeRequest"
HandshakeAccepted == "HandshakeReply(Accepted)"
HandshakeRepeated == "HandshakeReply(Repeated)"
HandshakeReplies == {HandshakeAccepted, HandshakeRepeated}
HandshakeInbound == HandshakeReplies \cup {"HeartBeatReply", "Error"}

\* EndPointMessagePacket::new
PacketNew(id, message) == [call_id |-> id, message |-> message]

\* BINCODE_SERIALIZER.serialize: the Option tag, the id when present, the message
Serialize(packet) ==
    IF packet.call_id = NoId THEN <<0, packet.message>>
    ELSE <<1, packet.call_id, packet.message>>

\* BINCODE_SERIALIZER.deserialize::<EndPointMessagePacket>
Deserialize(bytes) ==
    IF Len(bytes) = 2 /\ bytes[1] = 0
    THEN [ok |-> TRUE, packet |-> PacketNew(NoId, bytes[2])]
    ELSE IF Len(bytes) = 3 /\ bytes[1] = 1
    THEN [ok |-> TRUE, packet |-> PacketNew(bytes[2], bytes[3])]
    ELSE [ok |-> FALSE, packet |-> PacketNew(NoId, NoMsg)]

\* bytes that are no serialized packet
Garbage == <<2>>

EmptySlot == [call_id |-> NoId, message |-> NoMsg]
NoBuf == [bytes |-> <<>>, seq |-> 0]
NoResult == [kind |-> "none", call_id |-> NoId, message |-> NoMsg]
ReplyResult(r) == [kind |-> "reply", call_id |-> r.call_id, message |-> r.message]
ErrResult(kind) == [kind |-> kind, call_id |-> NoId, message |-> NoMsg]

(***************************************************************************)
(* EndPoint: the registration table                                        *)
(***************************************************************************)
\* register_call: DashMap::insert, replacing (and dropping) any sender under the id
RegisterCall(map, id, c) == [map EXCEPT ![id] = c]

\* remove_call: DashMap::remove
RemoveCall(map, id) == [map EXCEPT ![id] = NoCaller]

\* the caller's sender still exists somewhere (it lives only in the table)
TxAlive(c) == \E i \in CallIds : call_reply_tx_map[i] = c

\* the receiver half exists while the call's future does
RxAlive(c) == pc[c] \in {"send", "recv"}

\* (mutant) packet_rx outlives a seal or write failure of the loop
WriterAliveAfterFailure == writer_state \in {"recv", "send", "failed"}

\* packet_rx exists while serve_sink runs
WriterAlive == writer_state \in {"recv", "send"}

\* operations started whose buffer is not in the queue yet
Unsent == {c \in Callers : pc[c] \in {"register", "send", "media"}}

(***************************************************************************)
(* EndPoint::call                                                          *)
(***************************************************************************)
\* fetch_add(1, SeqCst) on the AtomicU16, then the packet is built; `budget` caps the
\* number of buffers the history may come to hold
CallAlloc(c, budget) ==
    /\ pc[c] = "idle"
    /\ endpoint_alive
    /\ Len(accepted) + Cardinality(Unsent) < budget
    /\ call_id' = [call_id EXCEPT ![c] = atomic_call_id]
    /\ atomic_call_id' = (atomic_call_id + 1) % CallIdModulus
    /\ pc' = [pc EXCEPT ![c] = "register"]
    /\ UNCHANGED <<call_reply_tx_map, packet_queue, endpoint_alive, slot, result,
                   writer_state, writer_buf, sealing_n, wire, reader_state,
                   opening_n, inbound_count, units, accepted, late_replies>>

\* register_call(call_id): a fresh channel(1), its sender put in the table
CallRegister(c) ==
    /\ pc[c] = "register"
    /\ call_reply_tx_map' = RegisterCall(call_reply_tx_map, call_id[c], c)
    /\ slot' = [slot EXCEPT ![c] = EmptySlot]
    /\ pc' = [pc EXCEPT ![c] = "send"]
    /\ UNCHANGED <<atomic_call_id, packet_queue, endpoint_alive, call_id, result,
                   writer_state, writer_buf, sealing_n, wire, reader_state,
                   opening_n, inbound_count, units, accepted, late_replies>>

\* the buffer send hands to packet_tx, tagged with its position in the history
Buffer(packet) == [bytes |-> Serialize(packet), seq |-> Len(accepted) + 1]

\* packet_tx.send(buffer).await completes: the queue has room and packet_rx exists
Enqueue(queue, buffer) == Append(queue, buffer)

\* the message the caller's operation passes to call
RequestOf(c) == IF handshake[c].active THEN HandshakeRequest ELSE RequestMessage

CallSendOk(c) ==
    /\ pc[c] = "send"
    /\ WriterAlive
    /\ Len(packet_queue) < QueueCapacity
    /\ LET buffer == Buffer(PacketNew(call_id[c], RequestOf(c)))
       IN /\ packet_queue' = Enqueue(packet_queue, buffer)
          /\ accepted' = Append(accepted, buffer)
    /\ pc' = [pc EXCEPT ![c] = "recv"]
    /\ UNCHANGED <<atomic_call_id, call_reply_tx_map, endpoint_alive, call_id, slot,
                   result, writer_state, writer_buf, sealing_n, wire, reader_state,
                   opening_n, inbound_count, units, late_replies>>

\* (mutant) the send-failure branch forgets remove_call
SendFailureCleanupForgotten(map, id) == map

\* the table after the send-failure branch of call (remove_call before bail!)
SendFailureCleanup(map, id) == RemoveCall(map, id)

\* packet_tx.send fails (packet_rx is gone): remove_call, then the send error
CallSendFailed(c) ==
    /\ pc[c] = "send"
    /\ ~WriterAlive
    /\ call_reply_tx_map' = SendFailureCleanup(call_reply_tx_map, call_id[c])
    /\ result' = [result EXCEPT ![c] = ErrResult("send_failed")]
    /\ pc' = [pc EXCEPT ![c] = "done"]
    /\ UNCHANGED <<atomic_call_id, packet_queue, endpoint_alive, call_id, slot,
                   writer_state, writer_buf, sealing_n, wire, reader_state,
                   opening_n, inbound_count, units, accepted, late_replies>>

\* (mutant) the timeout branch forgets remove_call
TimeoutCleanupForgotten(map, id) == map

\* the table after the timeout branch of call (map_err: remove_call)
TimeoutCleanup(map, id) == RemoveCall(map, id)

\* packet_tx.send(buffer).await is pending: packet_rx exists and the queue has no room
SendPending == WriterAlive /\ Len(packet_queue) = QueueCapacity

\* timeout(duration, ..) elapses while the call waits in send or in recv; Timeout polls
\* the inner future first, so the timer never wins over a send that completes at once
CallTimeout(c) ==
    /\ \/ pc[c] = "send" /\ SendPending
       \/ pc[c] = "recv"
    /\ call_reply_tx_map' = TimeoutCleanup(call_reply_tx_map, call_id[c])
    /\ result' = [result EXCEPT ![c] = ErrResult("timeout")]
    /\ pc' = [pc EXCEPT ![c] = "done"]
    /\ UNCHANGED <<atomic_call_id, packet_queue, endpoint_alive, call_id, slot,
                   writer_state, writer_buf, sealing_n, wire, reader_state,
                   opening_n, inbound_count, units, accepted, late_replies>>

\* rx.recv() yields the message in the channel
CallRecvReply(c) ==
    /\ pc[c] = "recv"
    /\ slot[c] # EmptySlot
    /\ result' = [result EXCEPT ![c] = ReplyResult(slot[c])]
    /\ slot' = [slot EXCEPT ![c] = EmptySlot]
    /\ pc' = [pc EXCEPT ![c] = "done"]
    /\ UNCHANGED <<atomic_call_id, call_reply_tx_map, packet_queue, endpoint_alive,
                   call_id, writer_state, writer_buf, sealing_n, wire, reader_state,
                   opening_n, inbound_count, units, accepted, late_replies>>

\* rx.recv() yields None: the sender was dropped with nothing sent ("call tx closed")
CallRecvClosed(c) ==
    /\ pc[c] = "recv"
    /\ slot[c] = EmptySlot
    /\ ~TxAlive(c)
    /\ result' = [result EXCEPT ![c] = ErrResult("tx_closed")]
    /\ pc' = [pc EXCEPT ![c] = "done"]
    /\ UNCHANGED <<atomic_call_id, call_reply_tx_map, packet_queue, endpoint_alive,
                   call_id, slot, writer_state, writer_buf, sealing_n, wire,
                   reader_state, opening_n, inbound_count, units, accepted,
                   late_replies>>

\* the invocation's result has been taken; the caller may invoke again
Return(c) ==
    /\ pc[c] = "done"
    /\ pc' = [pc EXCEPT ![c] = "idle"]
    /\ result' = [result EXCEPT ![c] = NoResult]
    /\ call_id' = [call_id EXCEPT ![c] = NoId]
    /\ slot' = [slot EXCEPT ![c] = EmptySlot]
    /\ UNCHANGED <<atomic_call_id, call_reply_tx_map, packet_queue, endpoint_alive,
                   writer_state, writer_buf, sealing_n, wire, reader_state,
                   opening_n, inbound_count, units, accepted, late_replies>>

(***************************************************************************)
(* EndPoint::send_media_frame                                              *)
(***************************************************************************)
\* (mutant) the media packet carries a call id
MediaPacketWithId == PacketNew(0, MediaMessage)

\* EndPointMessagePacket::new(None, EndPointMessage::MediaFrame(..))
MediaPacket == PacketNew(NoId, MediaMessage)

\* the packet with call id None is built
MediaStart(c, budget) ==
    /\ pc[c] = "idle"
    /\ endpoint_alive
    /\ Len(accepted) + Cardinality(Unsent) < budget
    /\ pc' = [pc EXCEPT ![c] = "media"]
    /\ UNCHANGED <<atomic_call_id, call_reply_tx_map, packet_queue, endpoint_alive,
                   call_id, slot, result, writer_state, writer_buf, sealing_n, wire,
                   reader_state, opening_n, inbound_count, units, accepted,
                   late_replies>>

MediaSendOk(c) ==
    /\ pc[c] = "media"
    /\ WriterAlive
    /\ Len(packet_queue) < QueueCapacity
    /\ LET buffer == Buffer(MediaPacket)
       IN /\ packet_queue' = Enqueue(packet_queue, buffer)
          /\ accepted' = Append(accepted, buffer)
    /\ result' = [result EXCEPT ![c] = ErrResult("ok")]
    /\ pc' = [pc EXCEPT ![c] = "done"]
    /\ UNCHANGED <<atomic_call_id, call_reply_tx_map, endpoint_alive, call_id, slot,
                   writer_state, writer_buf, sealing_n, wire, reader_state,
                   opening_n, inbound_count, units, late_replies>>

MediaSendFailed(c) ==
    /\ pc[c] = "media"
    /\ ~WriterAlive
    /\ result' = [result EXCEPT ![c] = ErrResult("send_failed")]
    /\ pc' = [pc EXCEPT ![c] = "done"]
    /\ UNCHANGED <<atomic_call_id, call_reply_tx_map, packet_queue, endpoint_alive,
                   call_id, slot, writer_state, writer_buf, sealing_n, wire,
                   reader_state, opening_n, inbound_count, units, accepted,
                   late_replies>>

(***************************************************************************)
(* EndPoint::handshake                                                     *)
(***************************************************************************)
\* the caller runs no handshake
NoHandshake == [active |-> FALSE, out |-> [kind |-> "none", error |-> ""]]

HandshakeOk == [kind |-> "ok", error |-> ""]
HandshakeErr(text) == [kind |-> "err", error |-> text]

\* the anyhow error a failed call carries
CallError(kind) ==
    CASE kind = "timeout" -> "call: timeout"
      [] kind = "send_failed" -> "call: send packet failed"
      [] kind = "tx_closed" -> "call: call tx closed"

\* bail!("handshake: mismatched reply message")
MismatchedOutcome == HandshakeErr("handshake: mismatched reply message")

\* (mutant) the repeated status is reported as a mismatched reply
RepeatedAsMismatched == MismatchedOutcome

\* HandshakeStatus::Repeated => bail!("handshake: repeated")
RepeatedOutcome == HandshakeErr("handshake: repeated")

\* what handshake returns for what its call returned: `?` hands a call error on as it
\* is, a HandshakeReply is matched on its status, any other reply is mismatched
HandshakeOutcome(r) ==
    IF r.kind # "reply" THEN HandshakeErr(CallError(r.kind))
    ELSE IF r.message = HandshakeAccepted THEN HandshakeOk
    ELSE IF r.message = HandshakeRepeated THEN RepeatedOutcome
    ELSE MismatchedOutcome

\* handshake(token) is invoked: its call takes an id
HandshakeStart(c, budget) ==
    /\ CallAlloc(c, budget)
    /\ handshake' = [handshake EXCEPT ![c] = [NoHandshake EXCEPT !.active = TRUE]]
    /\ UNCHANGED <<nonceVars, pairingVars, inbound_log>>

\* the call inside handshake goes on without returning
HandshakeCall(c) ==
    /\ handshake[c].active
    /\ CallRegister(c) \/ CallSendOk(c)
    /\ UNCHANGED sideVars

\* the call inside handshake returns, and with it handshake
HandshakeReturn(c) ==
    /\ handshake[c].active
    /\ CallSendFailed(c) \/ CallTimeout(c) \/ CallRecvReply(c) \/ CallRecvClosed(c)
    /\ handshake' = [handshake EXCEPT ![c].out = HandshakeOutcome(result'[c])]
    /\ UNCHANGED <<nonceVars, pairingVars, inbound_log>>

\* the caller has taken handshake's result
HandshakeDone(c) ==
    /\ handshake[c].active
    /\ Return(c)
    /\ handshake' = [handshake EXCEPT ![c] = NoHandshake]
    /\ UNCHANGED <<nonceVars, pairingVars, inbound_log>>

(***************************************************************************)
(* EndPoint::set_call_reply                                                *)
(***************************************************************************)
\* tx.try_send(message): into the owner's channel when it has room and a receiver
TrySend(slots, c, id, message) ==
    IF RxAlive(c) /\ slots[c] = EmptySlot
    THEN [slots EXCEPT ![c] = [call_id |-> id, message |-> message]]
    ELSE slots

\* (mutant) the sender registered under the next id is used instead
ReplyTargetNeighbour(map, id) == map[(id + 1) % CallIdModulus]

\* the channel set_call_reply sends into: the one remove_call(call_id) returned
ReplyTarget(map, id) == map[id]

\* (mutant) set_call_reply looks the sender up and leaves the entry in the table
ReplyCleanupKept(map, id) == map

\* the table after set_call_reply took the sender out (remove_call)
ReplyCleanup(map, id) == RemoveCall(map, id)

\* some call with this id has already returned the timeout error
TimedOut(id) ==
    \E c \in Callers : pc[c] = "done" /\ result[c].kind = "timeout" /\ call_id[c] = id

SetCallReply(id, message) ==
    /\ endpoint_alive
    /\ IF ReplyTarget(call_reply_tx_map, id) # NoCaller
       THEN /\ slot' = TrySend(slot, ReplyTarget(call_reply_tx_map, id), id, message)
            /\ call_reply_tx_map' = ReplyCleanup(call_reply_tx_map, id)
            /\ UNCHANGED late_replies
       ELSE /\ TimedOut(id) => late_replies < MaxLate
            /\ late_replies' = IF TimedOut(id) THEN late_replies + 1 ELSE late_replies
            /\ call_reply_tx_map' = RemoveCall(call_reply_tx_map, id)
            /\ UNCHANGED slot
    /\ UNCHANGED <<atomic_call_id, packet_queue, endpoint_alive, pc, call_id, result,
                   writer_state, writer_buf, sealing_n, wire, reader_state,
                   opening_n, inbound_count, units, accepted>>

(***************************************************************************)
(* serve_sink                                                              *)
(***************************************************************************)
\* (mutant) the newest buffer is taken first
DequeueNewest(queue) ==
    [buffer |-> queue[Len(queue)], rest |-> SubSeq(queue, 1, Len(queue) - 1)]

\* what packet_rx.recv() takes from the queue
Dequeue(queue) == [buffer |-> Head(queue), rest |-> Tail(queue)]

\* packet_rx.recv().await yields a buffer
WriterRecv ==
    /\ writer_state = "recv"
    /\ packet_queue # <<>>
    /\ writer_buf' = Dequeue(packet_queue).buffer
    /\ packet_queue' = Dequeue(packet_queue).rest
    /\ writer_state' = "send"
    /\ UNCHANGED <<atomic_call_id, call_reply_tx_map, endpoint_alive, pc, call_id,
                   slot, result, sealing_n, wire, reader_state, opening_n,
                   inbound_count, units, accepted, late_replies>>

\* packet_rx.recv().await yields None: every sender is dropped and the queue is empty
WriterRecvClosed ==
    /\ writer_state = "recv"
    /\ packet_queue = <<>>
    /\ ~endpoint_alive
    /\ writer_state' = "closed"
    /\ UNCHANGED <<atomic_call_id, call_reply_tx_map, packet_queue, endpoint_alive, pc,
                   call_id, slot, result, writer_buf, sealing_n, wire, reader_state,
                   opening_n, inbound_count, units, accepted, late_replies>>

\* the frame sink.send writes: the sealed buffer under the nonce advance returned
Frame(nonce, buffer) == [nonce |-> nonce, body |-> buffer]

SinkOutcomes == {"ok", "seal_failed", "write_failed"}

\* seal_in_place_append_tag, then sink.send(..).await; a failure of either ends the loop
\* and drops packet_rx with whatever the queue still holds
WriterSend(outcome) ==
    /\ writer_state = "send"
    /\ sealing_n' = NonceAdvance(sealing_n).n
    /\ IF outcome = "ok" /\ NonceAdvance(sealing_n).out.ok
       THEN /\ wire' = Append(wire, Frame(NonceAdvance(sealing_n).out.nonce, writer_buf))
            /\ writer_state' = "recv"
            /\ UNCHANGED packet_queue
       ELSE /\ writer_state' = "failed"
            /\ packet_queue' = <<>>
            /\ UNCHANGED wire
    /\ writer_buf' = NoBuf
    /\ UNCHANGED <<atomic_call_id, call_reply_tx_map, endpoint_alive, pc, call_id,
                   slot, result, reader_state, opening_n, inbound_count, units,
                   accepted, late_replies>>

(***************************************************************************)
(* serve_stream and the dispatch units it spawns                           *)
(***************************************************************************)
\* what stream.next().await can yield: a read error (an oversized frame included), the
\* end of the stream, or a frame that does or does not authenticate under the opening
\* key and its next nonce, holding the given plaintext
InboundPackets ==
    {PacketNew(id, m) : id \in CallIds \cup {NoId}, m \in ReplyMessages}
InboundInputs ==
    {[kind |-> "read_error", auth |-> FALSE, bytes |-> <<>>],
     [kind |-> "closed", auth |-> FALSE, bytes |-> <<>>]}
    \cup {[kind |-> "frame", auth |-> a, bytes |-> b] :
            a \in BOOLEAN, b \in {Serialize(p) : p \in InboundPackets} \cup {Garbage}}

\* (mutant) a frame that does not deserialize is skipped and the loop goes on
ReaderContinuesLenient(in) ==
    /\ in.kind = "frame"
    /\ in.auth
    /\ NonceAdvance(opening_n).out.ok

\* whether the loop goes on after this input: read ok, open_in_place ok, deserialize ok
ReaderContinues(in) ==
    /\ in.kind = "frame"
    /\ in.auth
    /\ NonceAdvance(opening_n).out.ok
    /\ Deserialize(in.bytes).ok

\* one iteration of the read loop; `budget` caps the number of frames read
ReaderStep(in, budget) ==
    /\ reader_state = "running"
    /\ inbound_count < budget
    /\ opening_n' = IF in.kind = "frame" THEN NonceAdvance(opening_n).n ELSE opening_n
    /\ inbound_count' = IF in.kind = "frame" THEN inbound_count + 1 ELSE inbound_count
    /\ IF ReaderContinues(in)
       THEN /\ units' = units \cup {[n |-> inbound_count + 1,
                                     packet |-> Deserialize(in.bytes).packet]}
            /\ UNCHANGED reader_state
       ELSE /\ reader_state' = IF in.kind = "closed" THEN "closed" ELSE "failed"
            /\ UNCHANGED units
    /\ UNCHANGED <<atomic_call_id, call_reply_tx_map, packet_queue, endpoint_alive, pc,
                   call_id, slot, result, writer_state, writer_buf, sealing_n, wire,
                   accepted, late_replies>>

\* the effect of handle_signaling_to_local_message(packet) on the table and the
\* reply channels: its body is commented out, it touches neither
HandleEffect(packet) ==
    /\ UNCHANGED <<call_reply_tx_map, slot>>

\* a spawned dispatch unit runs handle_signaling_to_local_message(packet) and ends
HandleSignalingToLocalMessage(u) ==
    /\ u \in units
    /\ units' = units \ {u}
    /\ HandleEffect(u.packet)
    /\ UNCHANGED <<atomic_call_id, packet_queue, endpoint_alive, pc, call_id, result,
                   writer_state, writer_buf, sealing_n, wire, reader_state,
                   opening_n, inbound_count, accepted, late_replies>>

(***************************************************************************)
(* The EndPoint is dropped: no call borrows it any more, packet_tx goes    *)
(***************************************************************************)
EndPointDrop ==
    /\ endpoint_alive
    /\ \A c \in Callers : pc[c] = "idle"
    /\ endpoint_alive' = FALSE
    /\ UNCHANGED <<atomic_call_id, call_reply_tx_map, packet_queue, pc, call_id, slot,
                   result, writer_state, writer_buf, sealing_n, wire, reader_state,
                   opening_n, inbound_count, units, accepted, late_replies>>

(***************************************************************************)
(* Pairing handshake: the primitives                                       *)
(***************************************************************************)
NumRsaKeys == 2
NumSecrets == 2
RsaKeys == 1..NumRsaKeys
Secrets == 1..NumSecrets
Passwords == {"secret123", "wrong"}
Salts == {<<1>>, <<2>>}

Unset == "<unset>"
BadUtf8 == "<not utf-8>"
NoRsaKey == 0
KeyLen == 32

\* no AEAD key material
NoKey == [salt |-> <<>>, material |-> 0, len |-> 0]

\* RSA with PKCS#1 v1.5: decryption gives the plaintext back under the matching
\* private key and fails under any other
RsaPublicKey(priv) == priv
RsaEncrypt(pub, bytes) == [key |-> pub, plain |-> bytes]
RsaDecrypt(priv, secret) ==
    IF secret.key = RsaPublicKey(priv) THEN [ok |-> TRUE, bytes |-> secret.plain]
    ELSE [ok |-> FALSE, bytes |-> ""]

\* String::from_utf8
FromUtf8(bytes) == [ok |-> bytes # BadUtf8, string |-> bytes]

\* X25519 as exponentiation in a small group: public = base^secret, and the agreement
\* of one side's secret with the other side's public value is the same on both sides
GroupPrime == 7
GroupBase == 3
RECURSIVE PowMod(_, _)
PowMod(x, k) == IF k = 0 THEN 1 ELSE (x * PowMod(x, k - 1)) % GroupPrime
ComputePublicKey(secret) == PowMod(GroupBase, secret)

\* agree_ephemeral up to its kdf: the shared key material, or the error value when the
\* peer's public value is not a usable one
SharedSecret(secret, peer_public) ==
    IF peer_public % GroupPrime = 0 THEN [ok |-> FALSE, material |-> 0]
    ELSE [ok |-> TRUE, material |-> PowMod(peer_public, secret)]

\* Vec::<u8>::with_capacity(n): an empty vector, whatever n is
VecWithCapacity(n) == <<>>

\* SecureRandom::fill(dest): fills dest, all Len(dest) bytes of it
RandomFill(dest, random) == [i \in 1..Len(dest) |-> random]

\* Salt::new(HKDF_SHA512, salt).extract(material).expand(info, CHACHA20_POLY1305):
\* output keying material of KeyLen bytes, determined by salt and material
HkdfExpand(salt, material) == [salt |-> salt, material |-> material, len |-> KeyLen]

\* Okm::fill(out): an error unless out is exactly as long as the output asked for
OkmFill(okm, out) ==
    IF Len(out) # okm.len THEN [ok |-> FALSE, key |-> NoKey]
    ELSE [ok |-> TRUE, key |-> okm]

\* one key of the kdf closure: expand, then fill a Vec::with_capacity(32)
DeriveKey(salt, material) == OkmFill(HkdfExpand(salt, material), VecWithCapacity(KeyLen))

(***************************************************************************)
(* Pairing handshake: the responder's handlers                             *)
(***************************************************************************)
NoRequest == [password_secret |-> RsaEncrypt(NoRsaKey, ""), exchange_pub_key |-> 0,
              exchange_salt |-> <<>>]
NoInitiator == [password |-> "", secret |-> 0, salt |-> <<>>]

\* what a verify step returns (kind, success, exchange_pub_key, exchange_salt, error)
\* and what it did on the way (compared, generated, agreed, send_key, recv_key, took)
Outcome(kind, error, compared, took) ==
    [kind |-> kind, success |-> FALSE, exchange_pub_key |-> <<>>, exchange_salt |-> <<>>,
     error |-> error, compared |-> compared, took |-> took, generated |-> FALSE,
     agreed |-> FALSE, send_key |-> NoKey, recv_key |-> NoKey]
NoOutcome == Outcome("none", "", "not_reached", FALSE)

\* (mutant) a mismatch is answered with an error instead of a reply
MismatchError == Outcome("error", "password mismatch", "mismatch", TRUE)

\* (mutant) the reply to a wrong password, the private key left in the cache
MismatchReplyKeepsKey == Outcome("reply", "", "mismatch", FALSE)

\* the reply to a wrong password: success false, the rest Default::default()
MismatchReply == Outcome("reply", "", "mismatch", TRUE)

\* lines 89-157: the password matched; `secret` is the ephemeral private key generated
MatchOutcome(req, secret) ==
    LET exchange_pub_key == <<ComputePublicKey(secret)>>
        exchange_salt == RandomFill(VecWithCapacity(32), 1)
        shared == SharedSecret(secret, req.exchange_pub_key)
        send_key == DeriveKey(req.exchange_salt, shared.material)
        recv_key == DeriveKey(exchange_salt, shared.material)
        base == [Outcome("error", "agree ephemeral key failed", "match", TRUE)
                    EXCEPT !.generated = TRUE, !.agreed = TRUE]
    IN IF ~shared.ok THEN base
       ELSE IF ~send_key.ok THEN base
       ELSE IF ~recv_key.ok THEN [base EXCEPT !.send_key = send_key.key]
       ELSE [base EXCEPT !.kind = "reply", !.error = "", !.success = TRUE,
                         !.exchange_pub_key = exchange_pub_key,
                         !.exchange_salt = exchange_salt,
                         !.send_key = send_key.key, !.recv_key = recv_key.key]

\* key_exchange_and_verify_password, from the password lookup to the comparison
VerifyOutcome(password, cached, req, secret) ==
    IF password = Unset
    THEN Outcome("error", "local password not set", "not_reached", FALSE)
    ELSE IF cached = NoRsaKey
    THEN Outcome("error", "no private key found", "not_reached", TRUE)
    ELSE IF ~RsaDecrypt(cached, req.password_secret).ok
    THEN Outcome("error", "decrypt password secret failed", "not_reached", TRUE)
    ELSE IF ~FromUtf8(RsaDecrypt(cached, req.password_secret).bytes).ok
    THEN Outcome("error", "parse password bytes to utf8 failed", "not_reached", TRUE)
    ELSE IF FromUtf8(RsaDecrypt(cached, req.password_secret).bytes).string # password
    THEN MismatchReply
    ELSE MatchOutcome(req, secret)

\* connect: a fresh RSA key pair, the private half cached, the public half returned
Connect(k) ==
    /\ priv_key_cache' = k
    /\ connect_reply' = RsaPublicKey(k)
    /\ verify_log' = <<>>
    /\ UNCHANGED <<local_password, initiator, request, verify_out>>

\* the initiator builds its verify request from the public key it was given
InitiatorRequest(password, secret, salt) ==
    /\ connect_reply # NoRsaKey
    /\ request = NoRequest
    /\ initiator' = [password |-> password, secret |-> secret, salt |-> salt]
    /\ request' = [password_secret |-> RsaEncrypt(connect_reply, password),
                   exchange_pub_key |-> ComputePublicKey(secret),
                   exchange_salt |-> salt]
    /\ UNCHANGED <<local_password, priv_key_cache, connect_reply, verify_out,
                   verify_log>>

\* the verify steps remembered: the last VerifyLogLen since the last connect step
VerifyLogLen == 2
LastOf(seq, n) == IF Len(seq) <= n THEN seq ELSE SubSeq(seq, Len(seq) - n + 1, Len(seq))

\* key_exchange_and_verify_password(endpoint, req)
KeyExchangeAndVerifyPassword(secret) ==
    /\ request # NoRequest
    /\ verify_out' = VerifyOutcome(local_password, priv_key_cache, request, secret)
    /\ priv_key_cache' = IF verify_out'.took THEN NoRsaKey ELSE priv_key_cache
    /\ request' = NoRequest
    /\ verify_log' = LastOf(Append(verify_log, verify_out'), VerifyLogLen)
    /\ UNCHANGED <<local_password, connect_reply, initiator>>

InitPairingIdle ==
    /\ local_password = Unset
    /\ priv_key_cache = NoRsaKey
    /\ connect_reply = NoRsaKey
    /\ initiator = NoInitiator
    /\ request = NoRequest
    /\ verify_out = NoOutcome
    /\ verify_log = <<>>

(***************************************************************************)
(* The endpoint specification                                              *)
(***************************************************************************)
\* EndPoint::connect: the state right after construction
InitEndPoint ==
    /\ atomic_call_id = 0
    /\ call_reply_tx_map = [i \in CallIds |-> NoCaller]
    /\ packet_queue = <<>>
    /\ endpoint_alive = TRUE
    /\ pc = [c \in Callers |-> "idle"]
    /\ call_id = [c \in Callers |-> NoId]
    /\ slot = [c \in Callers |-> EmptySlot]
    /\ result = [c \in Callers |-> NoResult]
    /\ writer_state = "recv"
    /\ writer_buf = NoBuf
    /\ sealing_n = NonceValueNew(Pow2(OffsetBits) - 1)
    /\ wire = <<>>
    /\ reader_state = "running"
    /\ opening_n = NonceValueNew(0)
    /\ inbound_count = 0
    /\ units = {}
    /\ accepted = <<>>
    /\ late_replies = 0

\* no caller runs handshake, nothing has been read
InitExtraIdle ==
    /\ handshake = [c \in Callers |-> NoHandshake]
    /\ inbound_log = <<>>

InitNonceIdle ==
    /\ nonce_v = 0
    /\ nonce_n = NonceValueNew(nonce_v)
    /\ emitted = <<>>

Init == InitEndPoint /\ InitNonceIdle /\ InitPairingIdle /\ InitExtraIdle

Next ==
    \/ \E c \in Callers : CallAlloc(c, MaxAccepted) /\ UNCHANGED sideVars
    \/ \E c \in Callers : CallRegister(c) /\ UNCHANGED sideVars
    \/ \E c \in Callers : CallSendOk(c) /\ UNCHANGED sideVars
    \/ \E c \in Callers : CallSendFailed(c) /\ UNCHANGED sideVars
    \/ \E c \in Callers : CallTimeout(c) /\ UNCHANGED sideVars
    \/ \E c \in Callers : CallRecvReply(c) /\ UNCHANGED sideVars
    \/ \E c \in Callers : CallRecvClosed(c) /\ UNCHANGED sideVars
    \/ \E c \in Callers : Return(c) /\ UNCHANGED sideVars
    \/ \E c \in Callers : MediaStart(c, MaxAccepted) /\ UNCHANGED sideVars
    \/ \E c \in Callers : MediaSendOk(c) /\ UNCHANGED sideVars
    \/ \E c \in Callers : MediaSendFailed(c) /\ UNCHANGED sideVars
    \/ \E id \in CallIds, m \in ReplyMessages : SetCallReply(id, m) /\ UNCHANGED sideVars
    \/ WriterRecv /\ UNCHANGED sideVars
    \/ WriterRecvClosed /\ UNCHANGED sideVars
    \/ \E o \in SinkOutcomes : WriterSend(o) /\ UNCHANGED sideVars
    \/ \E in \in InboundInputs : ReaderStep(in, MaxInbound) /\ UNCHANGED sideVars
    \/ \E u \in units : HandleSignalingToLocalMessage(u) /\ UNCHANGED sideVars
    \/ EndPointDrop /\ UNCHANGED sideVars

Spec == Init /\ [][Next]_vars

(***************************************************************************)
(* The outbound path alone: callers, the queue and the writer loop, with   *)
(* no inbound traffic and no replies, under a larger history budget        *)
(***************************************************************************)
NextOutbound ==
    \/ \E c \in Callers : CallAlloc(c, MaxAcceptedOutbound) /\ UNCHANGED sideVars
    \/ \E c \in Callers : CallRegister(c) /\ UNCHANGED sideVars
    \/ \E c \in Callers : CallSendOk(c) /\ UNCHANGED sideVars
    \/ \E c \in Callers : CallSendFailed(c) /\ UNCHANGED sideVars
    \/ \E c \in Callers : CallTimeout(c) /\ UNCHANGED sideVars
    \/ \E c \in Callers : CallRecvClosed(c) /\ UNCHANGED sideVars
    \/ \E c \in Callers : Return(c) /\ UNCHANGED sideVars
    \/ \E c \in Callers : MediaStart(c, MaxAcceptedOutbound) /\ UNCHANGED sideVars
    \/ \E c \in Callers : MediaSendOk(c) /\ UNCHANGED sideVars
    \/ \E c \in Callers : MediaSendFailed(c) /\ UNCHANGED sideVars
    \/ WriterRecv /\ UNCHANGED sideVars
    \/ WriterRecvClosed /\ UNCHANGED sideVars
    \/ \E o \in SinkOutcomes : WriterSend(o) /\ UNCHANGED sideVars
    \/ EndPointDrop /\ UNCHANGED sideVars

SpecOutbound == Init /\ [][NextOutbound]_vars

(***************************************************************************)
(* The endpoint under the guarantees of the runtime: an invocation that can *)
(* go on is polled again, an elapsed timer fires, and the writer takes what *)
(* the queue holds.  sink.send is under no such guarantee: it pends for as  *)
(* long as the peer does not read.  No inbound frames, no drop.             *)
(***************************************************************************)
MaxAcceptedScheduled == 4

\* the next step of caller c inside call or send_media_frame
CallerProgress(c) ==
    /\ \/ CallRegister(c)
       \/ CallSendOk(c)
       \/ CallSendFailed(c)
       \/ CallTimeout(c)
       \/ CallRecvReply(c)
       \/ CallRecvClosed(c)
       \/ MediaSendOk(c)
       \/ MediaSendFailed(c)
    /\ UNCHANGED sideVars

NextScheduled ==
    \/ \E c \in Callers : CallAlloc(c, MaxAcceptedScheduled) /\ UNCHANGED sideVars
    \/ \E c \in Callers : MediaStart(c, MaxAcceptedScheduled) /\ UNCHANGED sideVars
    \/ \E c \in Callers : CallerProgress(c)
    \/ \E c \in Callers : Return(c) /\ UNCHANGED sideVars
    \/ \E id \in CallIds, m \in ReplyMessages : SetCallReply(id, m) /\ UNCHANGED sideVars
    \/ WriterRecv /\ UNCHANGED sideVars
    \/ \E o \in SinkOutcomes : WriterSend(o) /\ UNCHANGED sideVars

\* what the runtime guarantees
Scheduling ==
    /\ \A c \in Callers : WF_vars(CallerProgress(c))
    /\ WF_vars(WriterRecv /\ UNCHANGED sideVars)

SpecScheduled == Init /\ [][NextScheduled]_vars /\ Scheduling

(***************************************************************************)
(* handshake over the endpoint: every invocation is a handshake, and the   *)
(* replies are the messages a handshake may be answered with               *)
(***************************************************************************)
NextHandshake ==
    \/ \E c \in Callers : HandshakeStart(c, MaxAccepted)
    \/ \E c \in Callers : HandshakeCall(c)
    \/ \E c \in Callers : HandshakeReturn(c)
    \/ \E c \in Callers : HandshakeDone(c)
    \/ \E id \in CallIds, m \in HandshakeInbound :
          SetCallReply(id, m) /\ UNCHANGED sideVars
    \/ WriterRecv /\ UNCHANGED sideVars
    \/ \E o \in SinkOutcomes : WriterSend(o) /\ UNCHANGED sideVars

SpecHandshake == Init /\ [][NextHandshake]_vars

(***************************************************************************)
(* The inbound path alone: the reader loop and its dispatch units, with a  *)
(* record of what the stream yielded                                       *)
(***************************************************************************)
MaxInboundReader == 3

\* stream.next().await yields `in`, and the loop body runs on it
ReaderRead(in) ==
    /\ ReaderStep(in, MaxInboundReader)
    /\ inbound_log' = Append(inbound_log, in)
    /\ UNCHANGED <<nonceVars, pairingVars, handshake>>

NextInbound ==
    \/ \E in \in InboundInputs : ReaderRead(in)
    \/ \E u \in units : HandleSignalingToLocalMessage(u) /\ UNCHANGED sideVars

SpecInbound == Init /\ [][NextInbound]_vars

(***************************************************************************)
(* One NonceValue sequencer, for every initial offset                      *)
(***************************************************************************)
Offsets == 0..(Pow2(OffsetBits) - 1)

\* one call past the exhaustion of the masked counter
MaxAdvance == Pow2(NonceBits) + 1

InitNonce ==
    /\ InitEndPoint
    /\ InitPairingIdle
    /\ InitExtraIdle
    /\ nonce_v \in Offsets
    /\ nonce_n = NonceValueNew(nonce_v)
    /\ emitted = <<>>

\* one call of advance on the sequencer; its result is recorded
SequencerAdvance ==
    /\ Len(emitted) < MaxAdvance
    /\ nonce_n' = NonceAdvance(nonce_n).n
    /\ emitted' = Append(emitted, NonceAdvance(nonce_n).out)
    /\ UNCHANGED <<endpointVars, pairingVars, extraVars, nonce_v>>

NextNonce == SequencerAdvance

SpecNonce == InitNonce /\ [][NextNonce]_vars

(***************************************************************************)
(* The pairing handshake, for every configured password                    *)
(***************************************************************************)
InitPairing ==
    /\ InitEndPoint
    /\ InitNonceIdle
    /\ InitExtraIdle
    /\ local_password \in Passwords \cup {Unset}
    /\ priv_key_cache = NoRsaKey
    /\ connect_reply = NoRsaKey
    /\ initiator = NoInitiator
    /\ request = NoRequest
    /\ verify_out = NoOutcome
    /\ verify_log = <<>>

NextPairing ==
    \/ \E k \in RsaKeys : Connect(k) /\ UNCHANGED <<endpointVars, nonceVars, extraVars>>
    \/ \E p \in Passwords \cup {BadUtf8}, a \in Secrets, s \in Salts :
          InitiatorRequest(p, a, s) /\ UNCHANGED <<endpointVars, nonceVars, extraVars>>
    \/ \E b \in Secrets :
          KeyExchangeAndVerifyPassword(b) /\ UNCHANGED <<endpointVars, nonceVars, extraVars>>

SpecPairing == InitPairing /\ [][NextPairing]_vars

(***************************************************************************)
(* Properties of the endpoint                                              *)
(***************************************************************************)
InFlight(c) == pc[c] \in {"send", "recv"}

\* C1 (call/reply matching): a reply delivered with call id i lies only in the reply
\* channel of a call that registered id i, and a call that returns a reply returns one
\* that carried its own call id; no caller holds or receives another id's reply.
C1_CallReplyMatching ==
    \A c \in Callers :
        /\ slot[c] # EmptySlot => slot[c].call_id = call_id[c]
        /\ result[c].kind = "reply" => result[c].call_id = call_id[c]
        /\ \A i \in CallIds : call_reply_tx_map[i] = c => call_id[c] = i

\* two calls with different ids are in flight at once; the reply of the later id was
\* delivered and received first, the reply of the earlier id lies in its caller's slot
C1_Witness ==
    \E c, d \in Callers :
        /\ call_id[c] = 0 /\ call_id[d] = 1
        /\ pc[d] = "done" /\ result[d].kind = "reply" /\ result[d].call_id = 1
        /\ pc[c] = "recv" /\ slot[c] # EmptySlot /\ slot[c].call_id = 0

\* the step in which caller c returns the timeout error
TimeoutStep(c) == InFlight(c) /\ pc'[c] = "done" /\ result'[c].kind = "timeout"

\* the step in which a reply is dropped whose call had timed out before
LateReplyStep == late_replies' = late_replies + 1

C3_DispatchDelivers ==
    [][ \A u \in units :
            (/\ u \notin units'
             /\ u.packet.call_id # NoId
             /\ call_reply_tx_map[u.packet.call_id] # NoCaller
             /\ pc[call_reply_tx_map[u.packet.call_id]] = "recv"
             /\ slot[call_reply_tx_map[u.packet.call_id]] = EmptySlot)
            => slot'[call_reply_tx_map[u.packet.call_id]]
                   = [call_id |-> u.packet.call_id, message |-> u.packet.message]
      ]_vars

\* the bodies of the frames written so far
Written == [i \in 1..Len(wire) |-> wire[i].body]

\* the buffer the writer holds between recv and sink.send
InHand == IF writer_state = "send" THEN <<writer_buf>> ELSE <<>>

\* C6 (outbound ordering): the frames written are, in order, a prefix of the buffers
\* accepted into the queue, and while the writer runs every accepted buffer is written,
\* in the writer's hand or still queued, in the order of acceptance.
C6_OutboundOrdering ==
    /\ Len(wire) <= Len(accepted)
    /\ \A i \in 1..Len(wire) : wire[i].body = accepted[i]
    /\ WriterAlive => accepted = Written \o InHand \o packet_queue

\* two buffers of different operations were queued together and both were written
C6_Witness ==
    /\ Len(wire) >= 2
    /\ wire[1].body.bytes # wire[2].body.bytes
    /\ Len(accepted) = 3
    /\ \E c \in Callers : pc[c] = "recv"

\* a step of caller c inside send_media_frame: its invocation or its return
MediaStep(c) ==
    \/ pc[c] = "idle" /\ pc'[c] = "media"
    \/ pc[c] = "media" /\ pc'[c] = "done"

\* C19 (fire-and-forget send): no step of send_media_frame changes the call-id counter,
\* the table or a reply channel; when it returns success exactly one buffer was added at
\* the end of the queue, holding a packet with call id none and the media message, in
\* the very step of the return; when it returns an error the queue is unchanged.
C19_FireAndForget ==
    [][ \A c \in Callers :
            /\ MediaStep(c) => UNCHANGED <<atomic_call_id, call_reply_tx_map, slot>>
            /\ (pc[c] = "media" /\ pc'[c] = "done" /\ result'[c].kind = "ok")
                  => /\ Len(packet_queue') = Len(packet_queue) + 1
                     /\ SubSeq(packet_queue', 1, Len(packet_queue)) = packet_queue
                     /\ Deserialize(packet_queue'[Len(packet_queue')].bytes)
                            = [ok |-> TRUE,
                               packet |-> [call_id |-> NoId, message |-> MediaMessage]]
            /\ (pc[c] = "media" /\ pc'[c] = "done" /\ result'[c].kind # "ok")
                  => UNCHANGED <<packet_queue, accepted>>
      ]_vars

\* send_media_frame has returned success while a call is registered and waits for its
\* reply; the media frame was written, the table still holds the call's entry
C19_Witness ==
    \E c, d \in Callers :
        /\ pc[c] = "done" /\ result[c].kind = "ok" /\ call_id[c] = NoId
        /\ pc[d] = "recv" /\ call_reply_tx_map[call_id[d]] = d
        /\ \E i \in 1..Len(wire) : wire[i].body.bytes = Serialize(MediaPacket)

\* C20 (no leaked registrations): every entry of the table belongs to a call that has
\* registered under that id and has not returned yet; so when no call is in flight the
\* table is empty.
C20_NoLeakedRegistrations ==
    /\ \A i \in CallIds :
          call_reply_tx_map[i] # NoCaller
              => /\ InFlight(call_reply_tx_map[i])
                 /\ call_id[call_reply_tx_map[i]] = i
    /\ (\A c \in Callers : ~InFlight(c))
          => \A i \in CallIds : call_reply_tx_map[i] = NoCaller

\* one call has returned its reply, another the timeout error, a late reply was
\* dropped, and the table is empty
C20_Witness ==
    /\ \E c, d \in Callers :
          /\ pc[c] = "done" /\ result[c].kind = "reply"
          /\ pc[d] = "done" /\ result[d].kind = "timeout"
    /\ late_replies > 0
    /\ \A i \in CallIds : call_reply_tx_map[i] = NoCaller

\* the step in which the call of caller c runs remove_call on its timeout or
\* send-failure path
CleanupStep(c) ==
    /\ InFlight(c)
    /\ pc'[c] = "done"
    /\ result'[c].kind \in {"timeout", "send_failed"}

\* the step in which the call of caller c runs register_call
RegisterStep(c) == pc[c] = "register" /\ pc'[c] = "send"

\* C21 (cleanup touches only the caller's own registration), as claimed: the
\* remove_call of a call's timeout or send-failure path leaves every entry of another
\* call in the table, and register_call never replaces the entry of another call that
\* is still waiting, also after the call-id counter has wrapped.
C21_CleanupOnlyOwn ==
    [][ \A c \in Callers :
            /\ CleanupStep(c)
                  => \A i \in CallIds :
                        call_reply_tx_map[i] \notin {NoCaller, c}
                            => call_reply_tx_map'[i] = call_reply_tx_map[i]
            /\ RegisterStep(c)
                  => \/ call_reply_tx_map[call_id[c]] \in {NoCaller, c}
                     \/ ~InFlight(call_reply_tx_map[call_id[c]])
      ]_vars

\* C10 (teardown), as claimed: once the reader loop has stopped on a read, decrypt or
\* deserialize failure no frame is written any more, and once the writer loop has
\* stopped on a seal or write failure no frame is read any more.
C10_TeardownStopsBoth ==
    [][ /\ reader_state = "failed" => wire' = wire
        /\ writer_state = "failed" => inbound_count' = inbound_count
      ]_vars

\* C12 (send failure): a call that leaves its send otherwise than by the timeout has
\* failed to hand its packet over: the outbound path is gone, the packet was not
\* accepted, the call returns the send error, and its id has no entry in the table
\* when it returns.
C12_SendFailure ==
    [][ \A c \in Callers :
            (pc[c] = "send" /\ pc'[c] = "done" /\ result'[c].kind # "timeout")
                => /\ result'[c].kind = "send_failed"
                   /\ ~WriterAlive
                   /\ accepted' = accepted
                   /\ call_reply_tx_map'[call_id[c]] = NoCaller
      ]_vars

\* a call has returned the send error after the writer loop had failed, its id has no
\* entry, and the call of the other id is still registered and waiting
C12_Witness ==
    \E c, d \in Callers :
        /\ pc[c] = "done" /\ result[c].kind = "send_failed" /\ call_id[c] # NoId
        /\ call_reply_tx_map[call_id[c]] = NoCaller
        /\ writer_state = "failed"
        /\ pc[d] = "recv" /\ call_reply_tx_map[call_id[d]] = d

\* C23 (after the writer loop has exited): once the writer loop has stopped on a seal
\* or write failure, every send that completes, of a call or of a media frame, returns
\* the send error and the invocation returns with it instead of going on to wait for a
\* reply; the call leaves no entry under its id, and neither the queue nor the history
\* of accepted buffers takes another buffer.
C23_AfterWriterExit ==
    [][ writer_state = "failed"
            => /\ accepted' = accepted
               /\ packet_queue' = packet_queue
               /\ \A c \in Callers :
                     /\ (pc[c] = "send" /\ pc'[c] # "send")
                           => /\ pc'[c] = "done"
                              /\ result'[c].kind = "send_failed"
                              /\ call_reply_tx_map'[call_id[c]] = NoCaller
                     /\ (pc[c] = "media" /\ pc'[c] # "media")
                           => /\ pc'[c] = "done"
                              /\ result'[c].kind = "send_failed"
      ]_vars

\* with the writer loop stopped, a call and a media send have both returned the send
\* error, the call's id has no entry, and nothing is queued
C23_Witness ==
    \E c, d \in Callers :
        /\ writer_state = "failed"
        /\ pc[c] = "done" /\ result[c].kind = "send_failed" /\ call_id[c] # NoId
        /\ call_reply_tx_map[call_id[c]] = NoCaller
        /\ pc[d] = "done" /\ result[d].kind = "send_failed" /\ call_id[d] = NoId
        /\ packet_queue = <<>>

\* the step in which caller c is allocated its call id
AllocStep(c) == pc[c] = "idle" /\ pc'[c] = "register"

\* C14 (call ids are not reused while live), as claimed: the id a call is allocated has
\* no entry in the table, and the id a call registers has none either, however often
\* the counter has wrapped.
C14_NoReuseWhileLive ==
    [][ \A c \in Callers :
            /\ AllocStep(c) => call_reply_tx_map[call_id'[c]] = NoCaller
            /\ (pc[c] = "register" /\ pc'[c] = "send")
                   => call_reply_tx_map[call_id[c]] = NoCaller
      ]_vars

\* the errors the call under handshake can return
CallErrors == {CallError(k) : k \in {"timeout", "send_failed", "tx_closed"}}

\* C16 (handshake outcomes): a handshake whose call returned a handshake reply with
\* status accepted returns success; with status repeated it returns an outcome of its
\* own, which is neither success, nor the mismatched-reply error, nor an error of the
\* call; for a reply of any other kind it returns the mismatched-reply error; and an
\* error of the call (timeout, send failure, closed channel) is returned as it is.
C16_HandshakeOutcomes ==
    \A c \in Callers :
        (handshake[c].active /\ pc[c] = "done")
            => LET r == result[c]
                   out == handshake[c].out
               IN /\ (r.kind = "reply" /\ r.message = HandshakeAccepted)
                        => out = HandshakeOk
                  /\ (r.kind = "reply" /\ r.message = HandshakeRepeated)
                        => /\ out.kind = "err"
                           /\ out.error = "handshake: repeated"
                           /\ out # MismatchedOutcome
                           /\ out.error \notin CallErrors
                  /\ (r.kind = "reply" /\ r.message \notin HandshakeReplies)
                        => out = MismatchedOutcome
                  /\ r.kind = "timeout" => out = HandshakeErr("call: timeout")
                  /\ r.kind = "send_failed"
                        => out = HandshakeErr("call: send packet failed")
                  /\ out.kind # "none"

\* one handshake has returned the repeated status while another has returned the
\* mismatched-reply error for a reply of another kind
C16_Witness ==
    \E c, d \in Callers :
        /\ handshake[c].active /\ pc[c] = "done"
        /\ result[c].kind = "reply" /\ result[c].message = HandshakeRepeated
        /\ handshake[d].active /\ pc[d] = "done"
        /\ result[d].kind = "reply" /\ result[d].message = "HeartBeatReply"
        /\ handshake[d].out = MismatchedOutcome

\* a frame that was read, authenticates and holds a serialized packet
GoodFrame(in) == in.kind = "frame" /\ in.auth /\ Deserialize(in.bytes).ok

\* the frames among what the stream yielded
FramesRead == {i \in 1..Len(inbound_log) : inbound_log[i].kind = "frame"}

\* C17 (reader failures are terminal): an input that is a read error (an oversized
\* frame included), a frame that fails decryption or a frame that fails
\* deserialization is the last thing the reader loop takes from the stream, and the
\* loop has exited; every dispatch unit holds the packet of a frame that passed all
\* three; and the opening key was used once per frame read, never again for a frame.
C17_ReaderFailuresTerminal ==
    /\ \A i \in 1..Len(inbound_log) :
          (~GoodFrame(inbound_log[i]) /\ inbound_log[i].kind # "closed")
              => (i = Len(inbound_log) /\ reader_state = "failed")
    /\ \A u \in units :
          /\ u.n \in 1..Len(inbound_log)
          /\ GoodFrame(inbound_log[u.n])
          /\ u.packet = Deserialize(inbound_log[u.n].bytes).packet
    /\ opening_n = Cardinality(FramesRead)
    /\ Cardinality(units) <= Cardinality({i \in FramesRead : GoodFrame(inbound_log[i])})

\* two frames were read and dispatched, the third did not deserialize: the loop has
\* exited and the two units are all there is
C17_Witness ==
    /\ Len(inbound_log) = 3
    /\ GoodFrame(inbound_log[1]) /\ GoodFrame(inbound_log[2])
    /\ inbound_log[3].kind = "frame" /\ inbound_log[3].auth
    /\ ~Deserialize(inbound_log[3].bytes).ok
    /\ reader_state = "failed"
    /\ Cardinality(units) = 2

(***************************************************************************)
(* Properties of the nonce sequencer                                       *)
(***************************************************************************)
\* the number a sequence of bytes encodes, least significant byte first
RECURSIVE LeValue(_)
LeValue(bytes) ==
    IF bytes = <<>> THEN 0 ELSE Head(bytes) + ByteBase * LeValue(Tail(bytes))

\* C18 (nonce value): the k-th call of advance on a sequencer constructed with v returns
\* a nonce of NonceLen bytes that encodes (v + k) mod 2^NonceBits least significant
\* byte first, every byte above the masked width being zero; the counter has grown by
\* exactly one per call, and the value emitted is the one after the increment.
C18_NonceValue ==
    /\ nonce_n = nonce_v + Len(emitted)
    /\ \A k \in 1..Len(emitted) :
          /\ emitted[k].ok
          /\ Len(emitted[k].nonce) = NonceLen
          /\ \A i \in 1..NonceLen :
                /\ emitted[k].nonce[i] \in 0..(ByteBase - 1)
                /\ ByteBase ^ (i - 1) >= Pow2(NonceBits) => emitted[k].nonce[i] = 0
          /\ LeValue(emitted[k].nonce) = (nonce_v + k) % Pow2(NonceBits)

\* a sequencer constructed with the largest offset has been advanced past the wrap of
\* the masked counter, and one of its nonces has two non-zero bytes
C18_Witness ==
    /\ nonce_v = Pow2(OffsetBits) - 1
    /\ Len(emitted) = MaxAdvance
    /\ \E k \in 1..Len(emitted) : emitted[k].nonce[1] # 0 /\ emitted[k].nonce[2] # 0

\* C4 (nonce uniqueness): the first 2^NonceBits calls of advance (the scaled 2^48) return
\* nonces, and these are pairwise distinct, for every initial offset.
C4_NonceUniqueness ==
    \A i, j \in 1..Len(emitted) :
        (i < j /\ j <= Pow2(NonceBits))
            => /\ emitted[i].ok /\ emitted[j].ok
               /\ emitted[i].nonce # emitted[j].nonce

\* a sequencer with the largest offset has emitted the full 2^NonceBits nonces
C4_Witness ==
    /\ Len(emitted) = Pow2(NonceBits)
    /\ nonce_n = Pow2(OffsetBits) - 1 + Pow2(NonceBits)

\* C5 (exhaustion is fatal), as claimed: a call of advance after 2^NonceBits emissions
\* returns an error, and no emitted nonce equals an earlier one.
C5_ExhaustionIsFatal ==
    /\ \A i \in 1..Len(emitted) : i > Pow2(NonceBits) => ~emitted[i].ok
    /\ \A i, j \in 1..Len(emitted) :
          (i < j /\ emitted[i].ok /\ emitted[j].ok) => emitted[i].nonce # emitted[j].nonce

(***************************************************************************)
(* Properties of the pairing handshake                                     *)
(***************************************************************************)
\* the initiator's side of the derivation, mirrored from the responder's: the key under
\* its own salt opens what the responder seals, the key under the responder's salt
\* seals what the responder opens
InitiatorMaterial ==
    IF verify_out.kind = "reply" /\ verify_out.success
    THEN SharedSecret(initiator.secret, verify_out.exchange_pub_key[1])
    ELSE [ok |-> FALSE, material |-> 0]
InitiatorOpeningKey ==
    IF InitiatorMaterial.ok THEN HkdfExpand(initiator.salt, InitiatorMaterial.material)
    ELSE NoKey
InitiatorSealingKey ==
    IF InitiatorMaterial.ok
    THEN HkdfExpand(verify_out.exchange_salt, InitiatorMaterial.material)
    ELSE NoKey

\* C7 (key symmetry), as claimed: after a verify step with matching passwords the
\* responder holds a send key and a recv key, its send key is the initiator's opening
\* key and its recv key is the initiator's sealing key.
C7_KeySymmetry ==
    (request = NoRequest /\ verify_out.compared = "match")
        => /\ verify_out.send_key # NoKey
           /\ verify_out.recv_key # NoKey
           /\ verify_out.send_key = InitiatorOpeningKey
           /\ verify_out.recv_key = InitiatorSealingKey

\* C8 (password mismatch): a verify step that decrypted a password different from the
\* stored one returned a reply, not an error, with success false and an empty public key
\* and salt, and generated no ephemeral key, agreed on nothing and derived no key.
C8_PasswordMismatch ==
    verify_out.compared = "mismatch"
        => /\ verify_out.kind = "reply"
           /\ ~verify_out.success
           /\ verify_out.exchange_pub_key = <<>>
           /\ verify_out.exchange_salt = <<>>
           /\ ~verify_out.generated /\ ~verify_out.agreed
           /\ verify_out.send_key = NoKey /\ verify_out.recv_key = NoKey

\* a verify step has compared a wrong password with the stored one
C8_Witness ==
    /\ verify_out.compared = "mismatch"
    /\ local_password = "secret123"
    /\ initiator.password = "wrong"
    /\ request = NoRequest

\* C9 (password match), as claimed: a verify step that found the cached key, decrypted
\* the password and found it equal to the stored one returned a reply with success true,
\* its ephemeral public key and its salt, having derived two keys of KeyLen bytes, one
\* under the initiator's salt and one under its own.
C9_PasswordMatch ==
    (request = NoRequest /\ verify_out.compared = "match")
        => /\ verify_out.kind = "reply"
           /\ verify_out.success
           /\ verify_out.exchange_pub_key # <<>>
           /\ verify_out.send_key.len = KeyLen
           /\ verify_out.send_key.salt = initiator.salt
           /\ verify_out.recv_key.len = KeyLen
           /\ verify_out.recv_key.salt = verify_out.exchange_salt

\* C22 (a failed password attempt burns the cached key): when a verify step has returned
\* a reply with success false, the next verify step, with no connect step in between,
\* returns the error 'no private key found' and no reply, whatever password it carries.
C22_FailedAttemptBurnsKey ==
    \A i \in 2..Len(verify_log) :
        (verify_log[i - 1].kind = "reply" /\ ~verify_log[i - 1].success)
            => /\ verify_log[i].kind = "error"
               /\ verify_log[i].error = "no private key found"
               /\ verify_log[i].compared = "not_reached"

\* after a wrong password was answered with success false, a second verify step that
\* carried the right password has failed for want of the private key
C22_Witness ==
    /\ Len(verify_log) = 2
    /\ verify_log[1].kind = "reply" /\ ~verify_log[1].success
    /\ verify_log[2].error = "no private key found"
    /\ request = NoRequest
    /\ initiator.password = local_password
    /\ priv_key_cache = NoRsaKey

\* a verify step: the request on its way is handled
VerifyStep == request # NoRequest /\ request' = NoRequest

\* C13 (ephemeral key consumed exactly once), as claimed: a verify step that follows a
\* connect step takes the cached private key out of the cache, whatever it returns, so
\* the cache holds no private key once the verify step has returned.
C13_KeyConsumedOnce ==
    [][ (VerifyStep /\ priv_key_cache # NoRsaKey)
            => (verify_out'.took /\ priv_key_cache' = NoRsaKey)
      ]_vars

(***************************************************************************)
(* Properties of the endpoint under the runtime's guarantees               *)
(***************************************************************************)
\* caller c waits in packet_tx.send for room in a full queue
BlockedOnFullQueue(c) ==
    pc[c] \in {"send", "media"} /\ Len(packet_queue) = QueueCapacity /\ WriterAlive

\* C11 (backpressure), as claimed: a call or send_media_frame invocation that finds the
\* outbound queue full does not stay blocked; it returns to its caller, whether or not
\* the writer loop ever takes a buffer from the queue again.
C11_Backpressure ==
    \A c \in Callers : BlockedOnFullQueue(c) ~> (pc[c] = "done")

\* caller c is inside a call invocation
InCall(c) == pc[c] \in {"register", "send", "recv"}

\* the call of caller c has returned in one of the three ways the claim names
ReturnedAsClaimed(c) ==
    pc[c] = "done" /\ result[c].kind \in {"reply", "timeout", "send_failed"}

\* C15 (calls always end), as claimed: every call invocation eventually returns, and
\* returns a reply, the timeout error or the send error.
C15_CallsAlwaysEnd ==
    \A c \in Callers : InCall(c) ~> ReturnedAsClaimed(c)

====
